---- MODULE Spec2Model ----
(***************************************************************************)
(* State-machine model of the expense tracker in src/app.js (the React     *)
(* component App and the helpers above it).  Every event handler, timer    *)
(* callback and FileReader callback is one action; the effect that saves   *)
(* the collection runs within the action that changed it.  State that only *)
(* the rendering reads is left out: darkMode, mobileMenuOpen,              *)
(* activeDropdown, isExportModalOpen and validationErrors.                 *)
(*                                                                         *)
(* JavaScript values are tagged records [t, n, s]: t is the type tag, n    *)
(* the numeric payload and s the string payload (a sequence of one-        *)
(* character strings).  An absent object property reads as undefined, so   *)
(* a record of the collection is a function from FIELDS to such values     *)
(* with Undef for the properties it does not have.                         *)
(***************************************************************************)
EXTENDS Integers, Sequences, FiniteSets, TLC

VARIABLES
    currentScreen,     \* useState(SCREEN.DASHBOARD)
    expenses,          \* useState([]): the expense collection
    selectedExpense,   \* useState(null): the snapshot being edited
    isLoading,         \* useState(true)
    toasts,            \* useState([]): notifications on display
    selectedExpenses,  \* useState([]): ids ticked for bulk actions
    exportFormat,      \* useState('json')
    formData,          \* useState({title, amount, category, date, notes})
    storage,           \* localStorage[STORAGE_KEY]
    reading,           \* FileReader objects whose onload has not run yet
    exported,          \* the file written by the last export download
    now,               \* the clock: hours since 2024-01-01T00:00Z
    tz,                \* local time minus UTC, in hours
    searchTerm,        \* useState(''): the search box of the reports screen
    filterCategory,    \* useState('all')
    sortBy,            \* useState('date-desc')
    todayString,       \* useMemo(..., []): the UTC day computed at mount
    storageFails,      \* localStorage.setItem throws (quota, private mode)
    crashed            \* a render threw and React unmounted the application

\* the parameters of the derived views
view == <<searchTerm, filterCategory, sortBy, todayString>>

\* what the handlers never assign
env == <<storageFails, crashed>>

vars == <<currentScreen, expenses, selectedExpense, isLoading, toasts,
          selectedExpenses, exportFormat, formData,
          storage, reading, exported, now, tz, view, env>>

----------------------------------------------------------------------------
(* Bounds of the model *)

MaxExpenses == 2      \* longest collection explored
MaxToasts == 1        \* most notifications on display at once
MaxReading == 1       \* most file reads in flight at once

----------------------------------------------------------------------------
(* JavaScript values *)

Undef == [t |-> "undefined", n |-> 0, s |-> <<>>]
Null == [t |-> "null", n |-> 0, s |-> <<>>]
NaN == [t |-> "NaN", n |-> 0, s |-> <<>>]
Num(k) == [t |-> "number", n |-> k, s |-> <<>>]
Str(chars) == [t |-> "string", n |-> 0, s |-> chars]

\* ToBoolean, as used by !x, x && y and x || y
Truthy(v) ==
    CASE v.t = "string" -> v.s # <<>>
      [] v.t = "number" -> v.n # 0
      [] OTHER -> FALSE

\* a || b
OrElse(a, b) == IF Truthy(a) THEN a ELSE b

Digits == <<"0", "1", "2", "3", "4", "5", "6", "7", "8", "9">>
IsDigit(c) == \E i \in 1..10 : Digits[i] = c
DigitValue(c) == (CHOOSE i \in 1..10 : Digits[i] = c) - 1
WhiteSpace == {" "}

RECURSIVE TrimStart(_)
TrimStart(s) ==
    IF s # <<>> /\ Head(s) \in WhiteSpace THEN TrimStart(Tail(s)) ELSE s

RECURSIVE TrimEnd(_)
TrimEnd(s) ==
    IF s # <<>> /\ s[Len(s)] \in WhiteSpace
    THEN TrimEnd(SubSeq(s, 1, Len(s) - 1))
    ELSE s

\* String.prototype.trim
Trim(s) == TrimEnd(TrimStart(s))

RECURSIVE DecimalValue(_)
DecimalValue(s) ==
    IF s = <<>> THEN 0
    ELSE 10 * DecimalValue(SubSeq(s, 1, Len(s) - 1)) + DigitValue(s[Len(s)])

AllDigits(s) == s # <<>> /\ \A i \in 1..Len(s) : IsDigit(s[i])

\* Number(string): white space is trimmed, the empty string is 0, an
\* optionally signed decimal numeral is its value, anything else is NaN.
\* (Only integer numerals occur in the inputs explored.)
StringToNumber(s) ==
    LET u == Trim(s) IN
    IF u = <<>> THEN Num(0)
    ELSE IF AllDigits(u) THEN Num(DecimalValue(u))
    ELSE IF Head(u) = "-" /\ AllDigits(Tail(u)) THEN Num(0 - DecimalValue(Tail(u)))
    ELSE IF Head(u) = "+" /\ AllDigits(Tail(u)) THEN Num(DecimalValue(Tail(u)))
    ELSE NaN

\* Number(v)
ToNumber(v) ==
    CASE v.t = "number" -> v
      [] v.t = "string" -> StringToNumber(v.s)
      [] v.t = "null" -> Num(0)
      [] OTHER -> NaN

\* the global isNaN(v): Number(v) is NaN
IsNaN(v) == ToNumber(v).t = "NaN"

\* Number.prototype.toString of an integer
RECURSIVE NaturalToString(_)
NaturalToString(k) ==
    IF k < 10 THEN <<Digits[k + 1]>>
    ELSE NaturalToString(k \div 10) \o <<Digits[(k % 10) + 1]>>

NumberToString(v) ==
    IF v.t = "NaN" THEN <<"N", "a", "N">>
    ELSE IF v.n < 0 THEN <<"-">> \o NaturalToString(0 - v.n)
    ELSE NaturalToString(v.n)

----------------------------------------------------------------------------
(* Dates.  Instants are hours since 2024-01-01T00:00Z; the calendar days   *)
(* explored lie in January 2024, day d starting at instant 24 * (d - 1).   *)

ISOPrefix == <<"2", "0", "2", "4", "-", "0", "1", "-">>

\* new Date(instant).toISOString().split('T')[0]: the UTC calendar day
ISODate(instant) ==
    LET d == (instant \div 24) + 1 IN
    ISOPrefix \o <<Digits[(d \div 10) + 1], Digits[(d % 10) + 1]>>

\* new Date("YYYY-MM-DD"): a date-only string is midnight UTC of that day;
\* anything else explored here is an Invalid Date (NaN time value)
ParseDate(s) ==
    IF /\ Len(s) = 10
       /\ SubSeq(s, 1, 8) = ISOPrefix
       /\ IsDigit(s[9]) /\ IsDigit(s[10])
       /\ DecimalValue(SubSeq(s, 9, 10)) \in 1..31
    THEN Num(24 * (DecimalValue(SubSeq(s, 9, 10)) - 1))
    ELSE NaN

\* const today = new Date(); today.setHours(0, 0, 0, 0): local midnight
LocalMidnight(instant, offset) == 24 * ((instant + offset) \div 24) - offset

----------------------------------------------------------------------------
(* Constants of the program *)

SCREEN == [DASHBOARD |-> "dashboard", ADD |-> "add", EDIT |-> "edit",
           REPORTS |-> "reports", SETTINGS |-> "settings"]

food == <<"f", "o", "o", "d">>

\* the value of the "All Categories" option of the category filter
all == <<"a", "l", "l">>

\* the upper limit validateForm puts on an amount
MaxAmount == 10000000

FIELDS == {"id", "title", "amount", "category", "date", "notes",
           "createdAt", "updatedAt"}

\* Date.now(): the clock never reads 0
DateNow == Num(now)

\* the form as useState and navigateTo(SCREEN.ADD) set it: the date is the
\* UTC calendar day
BlankForm ==
    [title |-> <<>>, amount |-> <<>>, category |-> food,
     date |-> ISODate(now), notes |-> <<>>]

----------------------------------------------------------------------------
(* Validation *)

NoError == ""

titleError(data) ==
    IF Trim(data.title) = <<>> THEN "Title is required"
    ELSE IF Len(data.title) < 3 THEN "Title must be at least 3 characters"
    ELSE NoError

\* amountError with the limit itself rejected (>= for >)
amountError_AtLimit(data) ==
    IF data.amount = <<>> THEN "Amount is required"
    ELSE IF IsNaN(Str(data.amount)) \/ ToNumber(Str(data.amount)).n <= 0
         THEN "Amount must be a positive number"
    ELSE IF ToNumber(Str(data.amount)).n >= MaxAmount
         THEN "Amount cannot exceed 10 million PKR"
    ELSE NoError

amountError(data) ==
    IF data.amount = <<>> THEN "Amount is required"
    ELSE IF IsNaN(Str(data.amount)) \/ ToNumber(Str(data.amount)).n <= 0
         THEN "Amount must be a positive number"
    ELSE IF ToNumber(Str(data.amount)).n > MaxAmount
         THEN "Amount cannot exceed 10 million PKR"
    ELSE NoError

categoryError(data) ==
    IF data.category = <<>> THEN "Category is required" ELSE NoError

\* selectedDate > today: a comparison with an Invalid Date is false
dateError(data) ==
    IF data.date = <<>> THEN "Date is required"
    ELSE IF /\ ParseDate(data.date).t = "number"
            /\ ParseDate(data.date).n > LocalMidnight(now, tz)
         THEN "Date cannot be in the future"
    ELSE NoError

\* the errors object: a function from the fields in error to their messages
validateForm(data) ==
    LET msg == [title |-> titleError(data), amount |-> amountError(data),
                category |-> categoryError(data), date |-> dateError(data)]
    IN [f \in {g \in DOMAIN msg : msg[g] # NoError} |-> msg[f]]

----------------------------------------------------------------------------
(* Identifiers.  crypto.randomUUID() returns an identifier that occurs     *)
(* nowhere else; the model takes the first one of a pool that no part of   *)
(* the state refers to.                                                    *)

NumUuids == 5

Uuid(k) == Str(<<"u", Digits[k + 1]>>)

RECURSIVE SeqRange(_)
SeqRange(q) == IF q = <<>> THEN {} ELSE {Head(q)} \cup SeqRange(Tail(q))

IdsOf(records) == {r.id : r \in SeqRange(records)}

\* JSON documents (file contents, the storage value): kind is "array" with
\* its items, "object" for any other JSON value, "text" for a text that is
\* not JSON, "absent" for no value at all, "denied" for a store that throws
\* when it is read
Doc(kind, items) == [kind |-> kind, items |-> items]

UsedIds ==
    IdsOf(expenses) \cup SeqRange(selectedExpenses)
    \cup (IF selectedExpense = Null THEN {} ELSE {selectedExpense.id})
    \cup IdsOf(exported.items) \cup IdsOf(storage.items)
    \cup UNION {IdsOf(reading[i].items) : i \in DOMAIN reading}

randomUUID(used) ==
    Uuid(CHOOSE k \in 1..NumUuids :
            /\ Uuid(k) \notin used
            /\ \A j \in 1..(k - 1) : Uuid(j) \in used)

CanGenerate(used) == \E k \in 1..NumUuids : Uuid(k) \notin used

----------------------------------------------------------------------------
(* JSON *)

\* JSON.stringify of one value: NaN is written as null (undefined
\* properties are left out, which reads back as undefined)
StringifyValue(v) == IF v.t = "NaN" THEN Null ELSE v

\* JSON.stringify(records): the text, kept in parsed form
JSONStringify(records) ==
    Doc("array", [i \in DOMAIN records |->
                    [f \in FIELDS |-> StringifyValue(records[i][f])]])

\* JSON.parse throws on a text that is not JSON
ParseThrows(doc) == doc.kind \in {"text", "absent"}

----------------------------------------------------------------------------
(* Persistence *)

\* localStorage.getItem throws when the store cannot be read
ReadThrows(doc) == doc.kind = "denied"

\* loadExpensesFromStorage: the parsed value when the key holds JSON, of
\* whatever shape; [] when the key is absent, or when getItem or JSON.parse
\* throws
loadExpensesFromStorage ==
    IF ReadThrows(storage) \/ ParseThrows(storage)
    THEN Doc("array", <<>>)
    ELSE storage

\* expenses.reduce, expenses.filter and expenses.length of the render that
\* follows: a value that is not an array has no such methods, the render
\* throws
RenderThrows(value) == value.kind # "array"

\* saveExpensesToStorage, run by the effect on [expenses, isLoading]:
\* setItem inside try/catch, a failure is logged and nothing else
saveExpensesToStorage_Never(records) == storage' = storage

saveExpensesToStorage(records) ==
    storage' = IF storageFails THEN storage ELSE JSONStringify(records)

\* a notification text: a template and the number it interpolates (0 when
\* the text has none)
Text(template) == [text |-> template, count |-> 0]
Counted(k, template) == [text |-> template, count |-> k]

\* showToast (the Date.now() ids of the toasts on display are distinct)
showToast(message, type) ==
    toasts' = Append(toasts, [message |-> message, type |-> type])

CanToast == Len(toasts) < MaxToasts

----------------------------------------------------------------------------
(* Inputs explored *)

Tea == <<"T", "e", "a">>

\* values typed into the form of the running application
FormValues ==
    [title |-> {Tea},
     amount |-> {<<"5">>, <<"7">>},
     category |-> {food},
     date |-> {ISODate(now)},
     notes |-> {<<>>}]

\* one object of an import file
FileRecord(id, title, amount) ==
    [id |-> id, title |-> title, amount |-> amount, category |-> Str(food),
     date |-> Str(ISODate(24)), notes |-> Undef, createdAt |-> Undef,
     updatedAt |-> Undef]

X1 == Str(<<"x", "1">>)

\* contents of the files the user can pick for import, besides the file
\* the application exported itself
ImportFiles ==
    { Doc("text", <<>>),                                    \* not JSON
      Doc("object", <<>>),                                  \* JSON, no array
      Doc("array", <<FileRecord(X1, Str(Tea), Num(5)),
                     FileRecord(X1, Undef, Num(5))>>),            \* no title
      Doc("array", <<FileRecord(Undef, Str(Tea), Num(0 - 5)),     \* no id, negative
                     FileRecord(X1, Str(Tea), Str(<<"7">>))>>) }

\* a file of three objects: one without id, one whose amount is 0 and one
\* without date
MixedFile ==
    Doc("array", <<[FileRecord(Undef, Str(Tea), Num(5)) EXCEPT !.createdAt = Num(3)],
                   FileRecord(X1, Str(Tea), Num(0)),
                   [FileRecord(X1, Str(Tea), Num(5)) EXCEPT !.date = Undef]>>)

\* a file of one object whose amount is a text that is no number
AbcFile ==
    Doc("array", <<FileRecord(X1, Str(Tea), Str(<<"a", "b", "c">>))>>)

\* a file of one object whose amount is negative
NegFile ==
    Doc("array", <<FileRecord(X1, Str(Tea), Num(0 - 5))>>)

\* a record an earlier session added and saved
StoredRecord ==
    [FileRecord(Uuid(1), Str(Tea), Num(5))
       EXCEPT !.notes = Str(<<>>), !.createdAt = Num(1)]

\* what the storage key holds when a session starts
StoredAtStart ==
    { Doc("absent", <<>>), Doc("text", <<>>), Doc("array", <<StoredRecord>>) }

TimeZones == {0 - 7, 0, 7}
\* 18:00 UTC of 2024-01-02: a day on which "today" is a valid date in every zone
StartInstant == 24 + 18

----------------------------------------------------------------------------
(* The application *)

\* the state after construction, at one of the given instants and zones
InitAt(instants, zones) ==
    /\ currentScreen = SCREEN.DASHBOARD
    /\ expenses = <<>>
    /\ selectedExpense = Null
    /\ isLoading = TRUE
    /\ toasts = <<>>
    /\ selectedExpenses = <<>>
    /\ exportFormat = "json"
    /\ now \in instants
    /\ tz \in zones
    /\ formData = BlankForm
    /\ storage \in StoredAtStart
    /\ reading = <<>>
    /\ exported = Doc("absent", <<>>)
    /\ searchTerm = <<>>
    /\ filterCategory = all
    /\ sortBy = "date-desc"
    /\ todayString = ISODate(now)
    /\ storageFails = FALSE
    /\ crashed = FALSE

Init == InitAt({StartInstant}, {0})

\* the timer of the load effect fires: loadData
\* the load effect has no dependencies: its timer is set once, at mount, and
\* fires once. The value is stored and isLoading cleared; the render that
\* follows either shows the collection, and then the save effect runs, or
\* throws, and then nothing of the application is left on the page
LoadData_Repeats ==
    /\ ~crashed
    /\ LET savedExpenses == loadExpensesFromStorage
       IN  IF RenderThrows(savedExpenses)
           THEN /\ crashed' = TRUE
                /\ UNCHANGED <<expenses, isLoading, storage>>
           ELSE /\ expenses' = savedExpenses.items
                /\ isLoading' = FALSE
                /\ saveExpensesToStorage(expenses')
                /\ UNCHANGED crashed
    /\ UNCHANGED <<currentScreen, selectedExpense, toasts, selectedExpenses, exportFormat, formData, reading,
                   exported, now, tz, view, storageFails>>

LoadData ==
    /\ isLoading
    /\ ~crashed
    /\ LET savedExpenses == loadExpensesFromStorage
       IN  IF RenderThrows(savedExpenses)
           THEN /\ crashed' = TRUE
                /\ UNCHANGED <<expenses, isLoading, storage>>
           ELSE /\ expenses' = savedExpenses.items
                /\ isLoading' = FALSE
                /\ saveExpensesToStorage(expenses')
                /\ UNCHANGED crashed
    /\ UNCHANGED <<currentScreen, selectedExpense, toasts, selectedExpenses, exportFormat, formData, reading,
                   exported, now, tz, view, storageFails>>

\* navigateTo(screen), as every caller uses it: without an expense
navigateTo(screen) ==
    /\ ~crashed
    /\ screen \in {SCREEN.DASHBOARD, SCREEN.ADD, SCREEN.REPORTS, SCREEN.SETTINGS}
    /\ selectedExpense' = Null
    /\ formData' = IF screen = SCREEN.ADD THEN BlankForm ELSE formData
    /\ currentScreen' = screen
    /\ UNCHANGED <<expenses, isLoading, toasts, selectedExpenses, exportFormat, storage, reading,
                   exported, now, tz, view, env>>

\* while isLoading the render returns the navigation bar and a spinner only
FormShown_WhileLoading == ~crashed /\ currentScreen \in {SCREEN.ADD, SCREEN.EDIT}

FormShown == ~isLoading /\ ~crashed /\ currentScreen \in {SCREEN.ADD, SCREEN.EDIT}
ListShown == ~isLoading /\ ~crashed /\ currentScreen \in {SCREEN.DASHBOARD, SCREEN.REPORTS}
SettingsShown == ~isLoading /\ ~crashed /\ currentScreen = SCREEN.SETTINGS

handleInputChange(name, value) ==
    /\ FormShown
    /\ formData' = [formData EXCEPT ![name] = value]
    /\ UNCHANGED <<currentScreen, expenses, selectedExpense, isLoading, toasts,
                   selectedExpenses, exportFormat, storage, reading,
                   exported, now, tz, view, env>>

\* the record handleAddExpense builds
newExpense ==
    [id |-> randomUUID(UsedIds),
     title |-> Str(formData.title),
     amount |-> ToNumber(Str(formData.amount)),
     category |-> Str(formData.category),
     date |-> Str(formData.date),
     notes |-> Str(formData.notes),
     createdAt |-> DateNow,
     updatedAt |-> Undef]

\* handleAddExpense resetting the form when validation fails
handleAddExpense_ResetsForm ==
    /\ FormShown /\ currentScreen = SCREEN.ADD
    /\ CanToast
    /\ IF DOMAIN validateForm(formData) # {}
       THEN /\ showToast(Text("Please fix the errors in the form"), "error")
            /\ formData' = BlankForm
            /\ UNCHANGED <<currentScreen, expenses, selectedExpense, storage>>
       ELSE /\ Len(expenses) < MaxExpenses /\ CanGenerate(UsedIds)
            /\ expenses' = <<newExpense>> \o expenses
            /\ formData' = BlankForm
            /\ currentScreen' = SCREEN.DASHBOARD
            /\ showToast(Text("Expense added successfully!"), "success")
            /\ saveExpensesToStorage(expenses')
            /\ UNCHANGED selectedExpense
    /\ UNCHANGED <<isLoading, selectedExpenses, exportFormat, reading,
                   exported, now, tz, view, env>>

handleAddExpense ==
    /\ FormShown /\ currentScreen = SCREEN.ADD
    /\ CanToast
    /\ IF DOMAIN validateForm(formData) # {}
       THEN /\ showToast(Text("Please fix the errors in the form"), "error")
            /\ UNCHANGED <<currentScreen, expenses, selectedExpense, formData,
                           storage>>
       ELSE /\ Len(expenses) < MaxExpenses /\ CanGenerate(UsedIds)
            /\ expenses' = <<newExpense>> \o expenses
            /\ formData' = BlankForm
            /\ currentScreen' = SCREEN.DASHBOARD
            /\ showToast(Text("Expense added successfully!"), "success")
            /\ saveExpensesToStorage(expenses')
            /\ UNCHANGED selectedExpense
    /\ UNCHANGED <<isLoading, selectedExpenses, exportFormat, reading,
                   exported, now, tz, view, env>>

\* the record handleEditExpense builds
updatedExpense ==
    [selectedExpense EXCEPT
       !.title = Str(formData.title),
       !.amount = ToNumber(Str(formData.amount)),
       !.category = Str(formData.category),
       !.date = Str(formData.date),
       !.notes = Str(formData.notes),
       !.updatedAt = DateNow]

handleEditExpense ==
    /\ FormShown /\ currentScreen = SCREEN.EDIT
    /\ IF selectedExpense = Null
       THEN UNCHANGED vars
       ELSE /\ CanToast
            /\ IF DOMAIN validateForm(formData) # {}
               THEN /\ showToast(Text("Please fix the errors in the form"), "error")
                    /\ UNCHANGED <<currentScreen, expenses, selectedExpense,
                                   storage>>
               ELSE /\ expenses' =
                         [i \in DOMAIN expenses |->
                            IF expenses[i].id = selectedExpense.id
                            THEN updatedExpense ELSE expenses[i]]
                    /\ selectedExpense' = Null
                    /\ currentScreen' = SCREEN.DASHBOARD
                    /\ showToast(Text("Expense updated successfully!"), "success")
                    /\ saveExpensesToStorage(expenses')
            /\ UNCHANGED <<isLoading, selectedExpenses, exportFormat, formData,
                           reading, exported, now, tz, view, env>>

\* Array.prototype.filter is SelectSeq of the Sequences module

\* prev.filter(expense => expense.id !== expenseId)
withoutId(records, expenseId) ==
    LET Keep(e) == e.id # expenseId IN SelectSeq(records, Keep)

\* confirmed is the answer to window.confirm
handleDeleteExpense_KeepsSelection(expenseId, confirmed) ==
    /\ ListShown
    /\ expenseId \in IdsOf(expenses)
    /\ IF confirmed
       THEN /\ CanToast
            /\ expenses' = withoutId(expenses, expenseId)
            /\ selectedExpense' =
                 IF selectedExpense # Null /\ selectedExpense.id = expenseId
                 THEN Null ELSE selectedExpense
            /\ showToast(Text("Expense deleted successfully!"), "success")
            /\ saveExpensesToStorage(expenses')
            /\ UNCHANGED <<currentScreen, isLoading, selectedExpenses, exportFormat, formData, reading, exported, now, tz, view, env>>
       ELSE UNCHANGED vars

handleDeleteExpense(expenseId, confirmed) ==
    /\ ListShown
    /\ expenseId \in IdsOf(expenses)
    /\ IF confirmed
       THEN /\ CanToast
            /\ expenses' = withoutId(expenses, expenseId)
            /\ selectedExpenses' =
                 LET Keep(id) == id # expenseId
                 IN SelectSeq(selectedExpenses, Keep)
            /\ selectedExpense' =
                 IF selectedExpense # Null /\ selectedExpense.id = expenseId
                 THEN Null ELSE selectedExpense
            /\ showToast(Text("Expense deleted successfully!"), "success")
            /\ saveExpensesToStorage(expenses')
            /\ UNCHANGED <<currentScreen, isLoading, exportFormat, formData, reading, exported, now, tz, view, env>>
       ELSE UNCHANGED vars

handleBulkDelete_FirstOnly(confirmed) ==
    /\ ListShown
    /\ IF selectedExpenses = <<>>
       THEN /\ CanToast
            /\ showToast(Text("No expenses selected"), "warning")
            /\ UNCHANGED <<currentScreen, expenses, selectedExpense, isLoading,
                           selectedExpenses, exportFormat,
                           formData, storage, reading, exported, now, tz, view, env>>
       ELSE IF confirmed
       THEN /\ CanToast
            /\ expenses' = withoutId(expenses, selectedExpenses[1])
            /\ selectedExpenses' = <<>>
            /\ selectedExpense' =
                 IF /\ selectedExpense # Null
                    /\ selectedExpense.id \in SeqRange(selectedExpenses)
                 THEN Null ELSE selectedExpense
            /\ showToast(Counted(Len(selectedExpenses),
                                 "{n} expenses deleted successfully!"),
                         "success")
            /\ saveExpensesToStorage(expenses')
            /\ UNCHANGED <<currentScreen, isLoading, exportFormat, formData, reading, exported, now, tz, view, env>>
       ELSE UNCHANGED vars

handleBulkDelete(confirmed) ==
    /\ ListShown
    /\ IF selectedExpenses = <<>>
       THEN /\ CanToast
            /\ showToast(Text("No expenses selected"), "warning")
            /\ UNCHANGED <<currentScreen, expenses, selectedExpense, isLoading,
                           selectedExpenses, exportFormat,
                           formData, storage, reading, exported, now, tz, view, env>>
       ELSE IF confirmed
       THEN /\ CanToast
            /\ expenses' =
                 LET Keep(e) == e.id \notin SeqRange(selectedExpenses)
                 IN SelectSeq(expenses, Keep)
            /\ selectedExpenses' = <<>>
            /\ selectedExpense' =
                 IF /\ selectedExpense # Null
                    /\ selectedExpense.id \in SeqRange(selectedExpenses)
                 THEN Null ELSE selectedExpense
            /\ showToast(Counted(Len(selectedExpenses),
                                 "{n} expenses deleted successfully!"),
                         "success")
            /\ saveExpensesToStorage(expenses')
            /\ UNCHANGED <<currentScreen, isLoading, exportFormat, formData, reading, exported, now, tz, view, env>>
       ELSE UNCHANGED vars

handleSelectExpense(expenseId) ==
    /\ ListShown
    /\ expenseId \in IdsOf(expenses)
    /\ selectedExpenses' =
         IF expenseId \in SeqRange(selectedExpenses)
         THEN LET Keep(id) == id # expenseId
              IN SelectSeq(selectedExpenses, Keep)
         ELSE Append(selectedExpenses, expenseId)
    /\ UNCHANGED <<currentScreen, expenses, selectedExpense, isLoading, toasts,
                   exportFormat, formData, storage, reading,
                   exported, now, tz, view, env>>

\* expense is the record of the row whose edit button is clicked
openEditModal(expense) ==
    /\ ListShown
    /\ expense \in SeqRange(expenses)
    /\ selectedExpense' = expense
    /\ formData' =
         [title |-> expense.title.s,
          amount |-> NumberToString(expense.amount),
          category |-> expense.category.s,
          date |-> expense.date.s,
          notes |-> OrElse(expense.notes, Str(<<>>)).s]
    /\ currentScreen' = SCREEN.EDIT
    /\ UNCHANGED <<expenses, isLoading, toasts, selectedExpenses, exportFormat, storage, reading, exported,
                   now, tz, view, env>>

\* the radio buttons of the export dialog
setExportFormat(format) ==
    /\ ~isLoading
    /\ ~crashed
    /\ format \in {"json", "csv"}
    /\ exportFormat' = format
    /\ UNCHANGED <<currentScreen, expenses, selectedExpense, isLoading, toasts,
                   selectedExpenses, formData, storage,
                   reading, exported, now, tz, view, env>>

\* the export dialog opens from the settings screen, or from a list with a
\* selection
ExportShown ==
    \/ SettingsShown
    \/ ListShown /\ selectedExpenses # <<>>

dataToExport ==
    IF Len(selectedExpenses) > 0
    THEN LET Keep(e) == e.id \in SeqRange(selectedExpenses)
         IN SelectSeq(expenses, Keep)
    ELSE expenses

\* the CSV text is kept only as a text that is not JSON
exportData ==
    /\ ExportShown
    /\ CanToast
    /\ exported' = IF exportFormat = "csv" THEN Doc("text", <<>>)
                   ELSE JSONStringify(dataToExport)
    /\ showToast(Counted(Len(dataToExport),
                         "{n} expenses exported successfully!"), "success")
    /\ UNCHANGED <<currentScreen, expenses, selectedExpense, isLoading,
                   selectedExpenses, exportFormat, formData,
                   storage, reading, now, tz, view, env>>

\* importData: the change handler of the file input starts a FileReader
importData(file) ==
    /\ SettingsShown
    /\ Len(reading) < MaxReading
    /\ file.kind # "absent"
    /\ reading' = Append(reading, file)
    /\ UNCHANGED <<currentScreen, expenses, selectedExpense, isLoading, toasts,
                   selectedExpenses, exportFormat, formData,
                   storage, exported, now, tz, view, env>>

\* hasRequiredFields without the test of the date (e.title && e.amount &&
\* e.category)
hasRequiredFields_NoDate(e) ==
    Truthy(e.title) /\ Truthy(e.amount) /\ Truthy(e.category)

\* e.title && e.amount && e.category && e.date
hasRequiredFields(e) ==
    Truthy(e.title) /\ Truthy(e.amount) /\ Truthy(e.category) /\ Truthy(e.date)

\* withDefaults giving every record a generated id (id: crypto.randomUUID())
RECURSIVE withDefaults_FreshIds(_, _)
withDefaults_FreshIds(items, used) ==
    IF items = <<>> THEN <<>>
    ELSE LET e == Head(items)
             id == randomUUID(used)
         IN <<[e EXCEPT !.id = id,
                        !.amount = ToNumber(e.amount),
                        !.createdAt = OrElse(e.createdAt, DateNow)]>>
            \o withDefaults_FreshIds(Tail(items), used \cup {id})

\* the map step of importData, over the records the filter kept; used is
\* the set of identifiers a generated one must differ from
RECURSIVE withDefaults(_, _)
withDefaults(items, used) ==
    IF items = <<>> THEN <<>>
    ELSE LET e == Head(items)
             id == IF Truthy(e.id) THEN e.id ELSE randomUUID(used)
         IN <<[e EXCEPT !.id = id,
                        !.amount = ToNumber(e.amount),
                        !.createdAt = OrElse(e.createdAt, DateNow)]>>
            \o withDefaults(Tail(items), used \cup {id})

validExpenses(items) ==
    withDefaults(SelectSeq(items, hasRequiredFields), UsedIds)

\* the generated identifiers validExpenses needs are left in the pool
CanImport(items) ==
    LET needed == Cardinality({i \in DOMAIN items :
                                 hasRequiredFields(items[i]) /\ ~Truthy(items[i].id)})
        free == Cardinality({k \in 1..NumUuids : Uuid(k) \notin UsedIds})
    IN needed <= free

RemoveAt(q, i) == SubSeq(q, 1, i - 1) \o SubSeq(q, i + 1, Len(q))

\* mergeImported replacing the collection (setExpenses(validExpenses))
mergeImported_Replaces(valid, prev) == valid

\* setExpenses(prev => [...validExpenses, ...prev])
mergeImported(valid, prev) == valid \o prev

\* the collection reader.onload leaves, given the file content and the
\* collection it finds
importedCollection_ForgetsPrev(doc, prev) ==
    IF ParseThrows(doc) THEN prev
    ELSE IF doc.kind = "array" THEN validExpenses(doc.items)
    ELSE prev

importedCollection(doc, prev) ==
    IF ParseThrows(doc) THEN prev
    ELSE IF doc.kind = "array" THEN mergeImported(validExpenses(doc.items), prev)
    ELSE prev

\* importToast reporting JSON that is no array as an import of nothing
importToast_NoArrayCheck(doc) ==
    IF ParseThrows(doc)
    THEN [message |-> Text("Error importing file"), type |-> "error"]
    ELSE [message |-> Counted(IF doc.kind = "array"
                              THEN Len(validExpenses(doc.items)) ELSE 0,
                              "{n} expenses imported successfully!"),
          type |-> "success"]

\* the notification reader.onload shows
importToast(doc) ==
    IF ParseThrows(doc)
    THEN [message |-> Text("Error importing file"), type |-> "error"]
    ELSE IF doc.kind = "array"
    THEN [message |-> Counted(Len(validExpenses(doc.items)),
                              "{n} expenses imported successfully!"),
          type |-> "success"]
    ELSE [message |-> Text("Invalid file format"), type |-> "error"]

\* reader.onload of the i-th read in flight
ReaderOnload(i) ==
    /\ ~crashed
    /\ i \in DOMAIN reading
    /\ CanToast
    /\ reading' = RemoveAt(reading, i)
    /\ showToast(importToast(reading[i]).message, importToast(reading[i]).type)
    /\ IF ~ParseThrows(reading[i]) /\ reading[i].kind = "array"
       THEN /\ CanImport(reading[i].items)
            /\ Len(importedCollection(reading[i], expenses)) <= MaxExpenses
            /\ expenses' = importedCollection(reading[i], expenses)
            /\ saveExpensesToStorage(expenses')
       ELSE UNCHANGED <<expenses, storage>>
    /\ UNCHANGED <<currentScreen, selectedExpense, isLoading,
                   selectedExpenses, exportFormat, formData, exported, now, tz, view, env>>

\* the Clear All button of the settings screen
ClearAll(confirmed) ==
    /\ SettingsShown
    /\ IF confirmed
       THEN /\ CanToast
            /\ expenses' = <<>>
            /\ selectedExpenses' = <<>>
            /\ selectedExpense' = Null
            /\ showToast(Text("All data cleared"), "warning")
            /\ saveExpensesToStorage(expenses')
            /\ UNCHANGED <<currentScreen, isLoading, exportFormat, formData, reading, exported, now, tz, view, env>>
       ELSE UNCHANGED vars

\* removeToast: the 3 s timer of a toast, or its close button
removeToast(i) ==
    /\ ~crashed
    /\ i \in DOMAIN toasts
    /\ toasts' = RemoveAt(toasts, i)
    /\ UNCHANGED <<currentScreen, expenses, selectedExpense, isLoading,
                   selectedExpenses, exportFormat, formData,
                   storage, reading, exported, now, tz, view, env>>

Next ==
    \/ LoadData
    \/ \E screen \in {SCREEN.DASHBOARD, SCREEN.ADD, SCREEN.REPORTS, SCREEN.SETTINGS} :
         navigateTo(screen)
    \/ \E name \in DOMAIN FormValues : \E value \in FormValues[name] :
         handleInputChange(name, value)
    \/ handleAddExpense
    \/ handleEditExpense
    \/ \E id \in IdsOf(expenses) : \E confirmed \in BOOLEAN :
         handleDeleteExpense(id, confirmed)
    \/ \E confirmed \in BOOLEAN : handleBulkDelete(confirmed)
    \/ \E id \in IdsOf(expenses) : handleSelectExpense(id)
    \/ \E expense \in SeqRange(expenses) : openEditModal(expense)
    \/ \E file \in ImportFiles : importData(file)
    \/ \E i \in DOMAIN reading : ReaderOnload(i)
    \/ \E confirmed \in BOOLEAN : ClearAll(confirmed)
    \/ \E i \in DOMAIN toasts : removeToast(i)

Spec == Init /\ [][Next]_vars

----------------------------------------------------------------------------
(* Import on its own: files are read into a collection that comes from the *)
(* storage and from earlier imports.                                        *)

NextImport ==
    \/ LoadData
    \/ \E screen \in {SCREEN.DASHBOARD, SCREEN.SETTINGS} : navigateTo(screen)
    \/ \E file \in ImportFiles : importData(file)
    \/ \E i \in DOMAIN reading : ReaderOnload(i)
    \/ \E id \in IdsOf(expenses) : handleDeleteExpense(id, TRUE)
    \/ ClearAll(TRUE)
    \/ \E i \in DOMAIN toasts : removeToast(i)

SpecImport == Init /\ [][NextImport]_vars

----------------------------------------------------------------------------
(* Import of files whose objects lack fields or hold values that are not   *)
(* what the form writes.                                                   *)

NextImportFields ==
    \/ LoadData
    \/ \E screen \in {SCREEN.DASHBOARD, SCREEN.REPORTS, SCREEN.SETTINGS} :
         navigateTo(screen)
    \/ \E file \in {MixedFile, AbcFile, NegFile} : importData(file)
    \/ \E i \in DOMAIN reading : ReaderOnload(i)
    \/ \E id \in IdsOf(expenses) : handleDeleteExpense(id, TRUE)
    \/ ClearAll(TRUE)
    \/ \E i \in DOMAIN toasts : removeToast(i)

SpecImportFields == Init /\ [][NextImportFields]_vars

----------------------------------------------------------------------------
(* The form on its own: a session that has loaded one stored record and    *)
(* has the add form or the edit form of that record open, with any of the  *)
(* inputs below typed in, at any of the instants and zones below.          *)

Sp == " "

TitleInputs ==
    { <<>>, <<Sp, Sp, Sp>>, <<"a", "b">>, <<Sp, "a", Sp>>, <<"a", Sp, "b">>,
      <<"a", "b", "c">>, <<Sp, Sp, "a", "b", Sp, Sp>>, <<Sp, "a", "b", "c">> }

\* "NaN" is what the edit form shows for an imported amount that is no number
AmountInputs ==
    { <<>>, <<"N", "a", "N">>, <<"-", "5">>, <<"0">>, <<"5">>,
      <<"1", "0", "0", "0", "0", "0", "0", "0">>,
      <<"1", "0", "0", "0", "0", "0", "0", "1">>,
      <<"9", "9", "9", "9", "9", "9", "9">> }

\* 2024-01-01 .. 2024-01-04, and the cleared date input
DateInputs == {<<>>} \cup {ISODate(24 * d) : d \in 0..3}

\* 00:00, 06:00, 12:00 and 18:00 UTC of 2024-01-02
FormInstants == {24, 30, 36, 42}

FormInputs ==
    [title : TitleInputs, amount : AmountInputs, category : {food},
     date : DateInputs, notes : {<<>>}]

InitForm ==
    /\ currentScreen \in {SCREEN.ADD, SCREEN.EDIT}
    /\ expenses = <<StoredRecord>>
    /\ selectedExpense = IF currentScreen = SCREEN.EDIT THEN StoredRecord ELSE Null
    /\ isLoading = FALSE
    /\ toasts = <<>>
    /\ selectedExpenses = <<>>
    /\ exportFormat = "json"
    /\ now \in FormInstants
    /\ tz \in TimeZones
    /\ formData \in FormInputs
    /\ storage = JSONStringify(expenses)
    /\ reading = <<>>
    /\ exported = Doc("absent", <<>>)
    /\ searchTerm = <<>>
    /\ filterCategory = all
    /\ sortBy = "date-desc"
    /\ todayString = ISODate(now)
    /\ storageFails = FALSE
    /\ crashed = FALSE

NextForm ==
    \/ handleAddExpense
    \/ handleEditExpense
    \/ \E i \in DOMAIN toasts : removeToast(i)

SpecForm == InitForm /\ [][NextForm]_vars

----------------------------------------------------------------------------
(* Export and import of the application's own file: records are added and  *)
(* edited through the form, then the collection is exported, and after     *)
(* that the exported file is imported, into the collection as it is or     *)
(* after Clear All.                                                        *)

\* nothing has been exported yet: the collection is still being built
Building == exported.kind = "absent"

NextRoundTrip ==
    \/ LoadData
    \/ \E screen \in {SCREEN.DASHBOARD, SCREEN.ADD, SCREEN.SETTINGS} : navigateTo(screen)
    \/ Building /\ \E name \in {"title", "amount"} : \E value \in FormValues[name] :
                     handleInputChange(name, value)
    \/ Building /\ handleAddExpense
    \/ Building /\ \E expense \in SeqRange(expenses) : openEditModal(expense)
    \/ Building /\ handleEditExpense
    \/ Building /\ exportData
    \/ ~Building /\ ClearAll(TRUE)
    \/ ~Building /\ importData(exported)
    \/ \E i \in DOMAIN reading : ReaderOnload(i)
    \/ \E i \in DOMAIN toasts : removeToast(i)

SpecRoundTrip == Init /\ [][NextRoundTrip]_vars

----------------------------------------------------------------------------
(* The filtered and sorted view *)

Lowers == <<"a", "b", "c", "d", "e", "f", "g", "h", "i", "j", "k", "l", "m",
            "n", "o", "p", "q", "r", "s", "t", "u", "v", "w", "x", "y", "z">>
Uppers == <<"A", "B", "C", "D", "E", "F", "G", "H", "I", "J", "K", "L", "M",
            "N", "O", "P", "Q", "R", "S", "T", "U", "V", "W", "X", "Y", "Z">>

IsUpper(c) == \E i \in 1..26 : Uppers[i] = c
IsLower(c) == \E i \in 1..26 : Lowers[i] = c

\* String.prototype.toLowerCase
toLowerCase(s) ==
    [i \in DOMAIN s |->
       IF IsUpper(s[i]) THEN Lowers[CHOOSE k \in 1..26 : Uppers[k] = s[i]]
       ELSE s[i]]

\* String.prototype.includes
includes(s, part) ==
    \E i \in 0..(Len(s) - Len(part)) : SubSeq(s, i + 1, i + Len(part)) = part

\* expense.notes?.toLowerCase().includes(...): undefined when the record
\* has no notes (or null), which the || takes for false
notesInclude(expense, part) ==
    IF expense.notes \in {Undef, Null} THEN FALSE
    ELSE includes(toLowerCase(expense.notes.s), part)

\* matchesFilter searching the titles only
matchesFilter_TitleOnly(expense) ==
    LET matchesSearch ==
            includes(toLowerCase(expense.title.s), toLowerCase(searchTerm))
        matchesCategory ==
            \/ filterCategory = all
            \/ expense.category = Str(filterCategory)
    IN matchesSearch /\ matchesCategory

\* the callback of the filter (the titles and notes of the records explored
\* are strings)
matchesFilter(expense) ==
    LET matchesSearch ==
            \/ includes(toLowerCase(expense.title.s), toLowerCase(searchTerm))
            \/ notesInclude(expense, toLowerCase(searchTerm))
        matchesCategory ==
            \/ filterCategory = all
            \/ expense.category = Str(filterCategory)
    IN matchesSearch /\ matchesCategory

\* a - b of two numbers
Minus(a, b) ==
    IF ToNumber(a) = NaN \/ ToNumber(b) = NaN THEN NaN
    ELSE Num(ToNumber(a).n - ToNumber(b).n)

\* new Date(value) as a time value, for the strings and the absent dates
DateValue(v) == IF v.t = "string" THEN ParseDate(v.s) ELSE NaN

\* the collation weight of a character: letters in alphabetical order,
\* whatever their case, after the space and the digits
Weight(c) ==
    IF IsLower(c) THEN 11 + CHOOSE k \in 1..26 : Lowers[k] = c
    ELSE IF IsUpper(c) THEN 11 + CHOOSE k \in 1..26 : Uppers[k] = c
    ELSE IF IsDigit(c) THEN 1 + DigitValue(c)
    ELSE 0

RECURSIVE CompareWeights(_, _)
CompareWeights(x, y) ==
    IF x = <<>> /\ y = <<>> THEN 0
    ELSE IF x = <<>> THEN 0 - 1
    ELSE IF y = <<>> THEN 1
    ELSE IF Weight(Head(x)) < Weight(Head(y)) THEN 0 - 1
    ELSE IF Weight(Head(x)) > Weight(Head(y)) THEN 1
    ELSE CompareWeights(Tail(x), Tail(y))

\* when the letters are the same, the first difference of case decides:
\* lower case comes first
RECURSIVE CompareCase(_, _)
CompareCase(x, y) ==
    IF x = <<>> \/ y = <<>> THEN 0
    ELSE IF IsLower(Head(x)) /\ IsUpper(Head(y)) THEN 0 - 1
    ELSE IF IsUpper(Head(x)) /\ IsLower(Head(y)) THEN 1
    ELSE CompareCase(Tail(x), Tail(y))

\* String.prototype.localeCompare in the default collation
localeCompare(x, y) ==
    IF CompareWeights(x, y) # 0 THEN Num(CompareWeights(x, y))
    ELSE Num(CompareCase(x, y))

SortKeys == {"date-desc", "date-asc", "amount-desc", "amount-asc",
             "title-asc", "title-desc"}

\* compareBy with the comparator of date-desc under date-asc too
compareBy_DateAscAsDesc(key, a, b) ==
    CASE key = "date-desc" -> Minus(DateValue(b.date), DateValue(a.date))
      [] key = "date-asc" -> Minus(DateValue(b.date), DateValue(a.date))
      [] key = "amount-desc" -> Minus(b.amount, a.amount)
      [] key = "amount-asc" -> Minus(a.amount, b.amount)
      [] key = "title-asc" -> localeCompare(a.title.s, b.title.s)
      [] key = "title-desc" -> localeCompare(b.title.s, a.title.s)
      [] OTHER -> Num(0)

\* the comparator of the sort, for the sort key given
compareBy(key, a, b) ==
    CASE key = "date-desc" -> Minus(DateValue(b.date), DateValue(a.date))
      [] key = "date-asc" -> Minus(DateValue(a.date), DateValue(b.date))
      [] key = "amount-desc" -> Minus(b.amount, a.amount)
      [] key = "amount-asc" -> Minus(a.amount, b.amount)
      [] key = "title-asc" -> localeCompare(a.title.s, b.title.s)
      [] key = "title-desc" -> localeCompare(b.title.s, a.title.s)
      [] OTHER -> Num(0)

\* InsertSorted leaving out an element that compares equal to one already
\* there
InsertSorted_DropsTies(q, e, key) ==
    LET greater == {i \in DOMAIN q :
                      /\ compareBy(key, q[i], e).t = "number"
                      /\ compareBy(key, q[i], e).n > 0}
        at == IF greater = {} THEN Len(q) + 1
              ELSE CHOOSE i \in greater : \A j \in greater : i <= j
    IN IF \E i \in DOMAIN q : compareBy(key, q[i], e) = Num(0) THEN q
       ELSE SubSeq(q, 1, at - 1) \o <<e>> \o SubSeq(q, at, Len(q))

\* e put into a sorted sequence, after the elements that do not compare
\* greater than it
InsertSorted(q, e, key) ==
    LET greater == {i \in DOMAIN q :
                      /\ compareBy(key, q[i], e).t = "number"
                      /\ compareBy(key, q[i], e).n > 0}
        at == IF greater = {} THEN Len(q) + 1
              ELSE CHOOSE i \in greater : \A j \in greater : i <= j
    IN SubSeq(q, 1, at - 1) \o <<e>> \o SubSeq(q, at, Len(q))

\* Array.prototype.sort with the comparator of the key: a stable sort.
\* (The order is the language's only when the comparator is consistent, as
\* it is for the records explored: their dates parse and their amounts are
\* numbers.)
RECURSIVE sortedBy(_, _)
sortedBy(records, key) ==
    IF records = <<>> THEN <<>>
    ELSE InsertSorted(sortedBy(SubSeq(records, 1, Len(records) - 1), key),
                      records[Len(records)], key)

\* the view under the given sort key
viewSortedBy(key) == sortedBy(SelectSeq(expenses, matchesFilter), key)

filteredExpenses == viewSortedBy(sortBy)

\* how many rows the dashboard lists: slice(0, 5)
RecentCount == 5

recentExpenses ==
    SubSeq(filteredExpenses, 1,
           IF Len(filteredExpenses) < RecentCount THEN Len(filteredExpenses)
           ELSE RecentCount)

ReportsShown == ~isLoading /\ ~crashed /\ currentScreen = SCREEN.REPORTS

\* the search box of the reports screen
setSearchTerm(value) ==
    /\ ReportsShown
    /\ searchTerm' = value
    /\ UNCHANGED <<currentScreen, expenses, selectedExpense, isLoading, toasts,
                   selectedExpenses, exportFormat, formData, storage, reading,
                   exported, now, tz, filterCategory, sortBy, todayString, env>>

\* the category select of the reports screen
setFilterCategory(value) ==
    /\ ReportsShown
    /\ filterCategory' = value
    /\ UNCHANGED <<currentScreen, expenses, selectedExpense, isLoading, toasts,
                   selectedExpenses, exportFormat, formData, storage, reading,
                   exported, now, tz, searchTerm, sortBy, todayString, env>>

\* the sort select of the reports screen
setSortBy(value) ==
    /\ ReportsShown
    /\ value \in SortKeys
    /\ sortBy' = value
    /\ UNCHANGED <<currentScreen, expenses, selectedExpense, isLoading, toasts,
                   selectedExpenses, exportFormat, formData, storage, reading,
                   exported, now, tz, searchTerm, filterCategory, todayString, env>>

\* the "All Expenses" entry of the navigation menu
showAllExpenses ==
    /\ ~crashed
    /\ searchTerm' = <<>>
    /\ filterCategory' = all
    /\ selectedExpense' = Null
    /\ currentScreen' = SCREEN.REPORTS
    /\ UNCHANGED <<expenses, isLoading, toasts, selectedExpenses, exportFormat,
                   formData, storage, reading, exported, now, tz, sortBy,
                   todayString, env>>

\* the rows a list shows: the dashboard the first of the filtered view, the
\* reports screen all of it
RowsShown ==
    IF currentScreen = SCREEN.DASHBOARD THEN recentExpenses ELSE filteredExpenses

\* the checkbox in the head of a list; the dashboard draws its table when
\* the collection is not empty, the reports screen when the filtered view is
\* not
SelectAllShown ==
    /\ ListShown
    /\ IF currentScreen = SCREEN.DASHBOARD THEN expenses # <<>>
       ELSE filteredExpenses # <<>>

\* handleSelectAll: it compares the two lengths
handleSelectAll ==
    /\ SelectAllShown
    /\ LET shown == filteredExpenses
       IN  selectedExpenses' =
             IF Len(selectedExpenses) = Len(shown)
             THEN <<>>
             ELSE [i \in DOMAIN shown |-> shown[i].id]
    /\ UNCHANGED <<currentScreen, expenses, selectedExpense, isLoading, toasts,
                   exportFormat, formData, storage, reading,
                   exported, now, tz, view, env>>

----------------------------------------------------------------------------
(* The views on their own: a session that has loaded a collection an       *)
(* earlier session saved, with the search box, the category filter and the *)
(* sort select of the reports screen being used.                           *)

MaxView == 3          \* longest collection of the views explored

transport == <<"t", "r", "a", "n", "s", "p", "o", "r", "t">>
other == <<"o", "t", "h", "e", "r">>

ViewRecord(k, title, notes, category, day, amount) ==
    [id |-> Str(<<"v", Digits[k + 1]>>), title |-> Str(title), amount |-> Num(amount),
     category |-> Str(category), date |-> Str(ISODate(24 * (day - 1))),
     notes |-> notes, createdAt |-> Num(k), updatedAt |-> Undef]

\* records with and without notes, with equal and different dates, amounts
\* and categories
ViewRecords ==
    { ViewRecord(1, <<"T", "e", "a">>, Undef, food, 1, 5),
      ViewRecord(2, <<"B", "u", "s">>, Str(<<"t", "e", "a">>), transport, 2, 7),
      ViewRecord(3, <<"A", "b">>, Str(<<>>), food, 2, 5),
      ViewRecord(4, <<"E", "a", "t">>, Null, transport, 3, 9) }

\* the collections: the records above in any order, none of them twice
ViewCollections ==
    {q \in UNION {[1..n -> ViewRecords] : n \in 0..MaxView} :
       \A i, j \in DOMAIN q : i # j => q[i] # q[j]}

SearchInputs == {<<>>, <<"t", "e">>, <<"T", "E">>, <<"b">>, <<"x">>}

CategoryOptions == {all, food, transport, other}

InitView ==
    /\ currentScreen = SCREEN.DASHBOARD
    /\ expenses \in ViewCollections
    /\ selectedExpense = Null
    /\ isLoading = FALSE
    /\ toasts = <<>>
    /\ selectedExpenses = <<>>
    /\ exportFormat = "json"
    /\ now = StartInstant
    /\ tz = 0
    /\ formData = BlankForm
    /\ storage = JSONStringify(expenses)
    /\ reading = <<>>
    /\ exported = Doc("absent", <<>>)
    /\ searchTerm = <<>>
    /\ filterCategory = all
    /\ sortBy = "date-desc"
    /\ todayString = ISODate(now)
    /\ storageFails = FALSE
    /\ crashed = FALSE

NextView ==
    \/ \E screen \in {SCREEN.DASHBOARD, SCREEN.REPORTS} : navigateTo(screen)
    \/ \E value \in SearchInputs : setSearchTerm(value)
    \/ \E value \in CategoryOptions : setFilterCategory(value)
    \/ \E value \in SortKeys : setSortBy(value)
    \/ showAllExpenses

SpecView == InitView /\ [][NextView]_vars

----------------------------------------------------------------------------
(* The statistics *)

CATEGORIES ==
    <<
       [id |-> <<"f", "o", "o", "d">>,
        name |-> <<"F", "o", "o", "d", " ", "&", " ", "D", "i", "n", "i", "n", "g">>,
        icon |-> "fa-utensils", color |-> "#ef4444"],
       [id |-> <<"t", "r", "a", "n", "s", "p", "o", "r", "t">>,
        name |-> <<"T", "r", "a", "n", "s", "p", "o", "r", "t", "a", "t", "i", "o", "n">>,
        icon |-> "fa-car", color |-> "#3b82f6"],
       [id |-> <<"u", "t", "i", "l", "i", "t", "i", "e", "s">>,
        name |-> <<"U", "t", "i", "l", "i", "t", "i", "e", "s">>,
        icon |-> "fa-bolt", color |-> "#f59e0b"],
       [id |-> <<"e", "n", "t", "e", "r", "t", "a", "i", "n", "m", "e", "n", "t">>,
        name |-> <<"E", "n", "t", "e", "r", "t", "a", "i", "n", "m", "e", "n", "t">>,
        icon |-> "fa-film", color |-> "#8b5cf6"],
       [id |-> <<"s", "h", "o", "p", "p", "i", "n", "g">>,
        name |-> <<"S", "h", "o", "p", "p", "i", "n", "g">>,
        icon |-> "fa-bag-shopping", color |-> "#ec4899"],
       [id |-> <<"h", "e", "a", "l", "t", "h">>,
        name |-> <<"H", "e", "a", "l", "t", "h", "c", "a", "r", "e">>,
        icon |-> "fa-heartbeat", color |-> "#10b981"],
       [id |-> <<"e", "d", "u", "c", "a", "t", "i", "o", "n">>,
        name |-> <<"E", "d", "u", "c", "a", "t", "i", "o", "n">>,
        icon |-> "fa-graduation-cap", color |-> "#6366f1"],
       [id |-> <<"o", "t", "h", "e", "r">>,
        name |-> <<"O", "t", "h", "e", "r">>,
        icon |-> "fa-ellipsis-h", color |-> "#6b7280"] >>

\* a + b of two numbers (an amount read back from storage can be null)
Plus(a, b) ==
    IF ToNumber(a) = NaN \/ ToNumber(b) = NaN THEN NaN
    ELSE Num(ToNumber(a).n + ToNumber(b).n)

\* records.reduce((sum, expense) => sum + expense.amount, 0)
RECURSIVE sumOfAmounts(_)
sumOfAmounts(records) ==
    IF records = <<>> THEN Num(0)
    ELSE Plus(sumOfAmounts(SubSeq(records, 1, Len(records) - 1)),
              records[Len(records)].amount)

totalExpenses == sumOfAmounts(expenses)

todayExpenses ==
    LET IsToday(expense) == expense.date = Str(todayString)
    IN sumOfAmounts(SelectSeq(expenses, IsToday))

RECURSIVE GCD(_, _)
GCD(a, b) == IF b = 0 THEN a ELSE GCD(b, a % b)

Abs(k) == IF k < 0 THEN 0 - k ELSE k

\* a / b of two numbers: NaN for 0 / 0, an infinity for another division by
\* 0, and otherwise the quotient, an integer or a fraction in lowest terms
\* (n the numerator, s the digits of the denominator)
Divide(a, b) ==
    IF a = NaN \/ b = NaN THEN NaN
    ELSE IF b.n = 0
         THEN IF a.n = 0 THEN NaN
              ELSE [t |-> "Infinity", n |-> IF a.n < 0 THEN 0 - 1 ELSE 1, s |-> <<>>]
    ELSE LET g == GCD(Abs(a.n), Abs(b.n))
             sign == IF b.n < 0 THEN 0 - 1 ELSE 1
         IN IF Abs(b.n) = g THEN Num(sign * (a.n \div g))
            ELSE [t |-> "fraction", n |-> sign * (a.n \div g),
                  s |-> NaturalToString(Abs(b.n) \div g)]

\* averageExpense without the test of the length
averageExpense_NoGuard == Divide(totalExpenses, Num(Len(expenses)))

averageExpense ==
    IF Len(expenses) > 0 THEN Divide(totalExpenses, Num(Len(expenses)))
    ELSE Num(0)

\* the object a reduce builds, as its entries in the order of insertion:
\* result[expense.category] = (result[expense.category] || 0) + expense.amount
\* (the categories of the records explored are strings)
addToCategory(result, expense) ==
    IF \E i \in DOMAIN result : result[i].category = expense.category
    THEN [i \in DOMAIN result |->
            IF result[i].category = expense.category
            THEN [result[i] EXCEPT
                    !.amount = Plus(OrElse(result[i].amount, Num(0)), expense.amount)]
            ELSE result[i]]
    ELSE Append(result, [category |-> expense.category,
                         amount |-> Plus(OrElse(Undef, Num(0)), expense.amount)])

RECURSIVE totalsOf(_)
totalsOf(records) ==
    IF records = <<>> THEN <<>>
    ELSE addToCategory(totalsOf(SubSeq(records, 1, Len(records) - 1)),
                       records[Len(records)])

\* Object.entries(categoryTotals)
categoryTotals == totalsOf(expenses)

\* an entry put into a sequence sorted by ([, a], [, b]) => b - a
InsertEntry(q, e) ==
    LET greater == {i \in DOMAIN q :
                      /\ Minus(e.amount, q[i].amount).t = "number"
                      /\ Minus(e.amount, q[i].amount).n > 0}
        at == IF greater = {} THEN Len(q) + 1
              ELSE CHOOSE i \in greater : \A j \in greater : i <= j
    IN SubSeq(q, 1, at - 1) \o <<e>> \o SubSeq(q, at, Len(q))

\* .sort(([, a], [, b]) => b - a): a stable sort (the sums of the records
\* explored are numbers, so the comparator is consistent)
RECURSIVE sortEntries(_)
sortEntries(entries) ==
    IF entries = <<>> THEN <<>>
    ELSE InsertEntry(sortEntries(SubSeq(entries, 1, Len(entries) - 1)),
                     entries[Len(entries)])

\* how many categories the reports screen ranks: slice(0, 5)
TopCount == 5

\* topCategories taking all the entries (no slice)
takeTop_All(entries) == entries

\* .slice(0, 5)
takeTop(entries) ==
    SubSeq(entries, 1, IF Len(entries) < TopCount THEN Len(entries) ELSE TopCount)

\* CATEGORIES.find(c => c.id === category)?.name || category, and the like
\* for the icon and the colour
displayOf(entry) ==
    LET found == {i \in DOMAIN CATEGORIES : Str(CATEGORIES[i].id) = entry.category}
        c == CATEGORIES[CHOOSE i \in found : \A j \in found : i <= j]
    IN [category |-> entry.category,
        amount |-> entry.amount,
        name |-> IF found # {} THEN c.name ELSE entry.category.s,
        icon |-> IF found # {} THEN c.icon ELSE "fa-tag",
        color |-> IF found # {} THEN c.color ELSE "#6b7280"]

topCategories ==
    LET top == takeTop(sortEntries(categoryTotals))
    IN [i \in DOMAIN top |-> displayOf(top[i])]

----------------------------------------------------------------------------
(* The statistics on their own: a session that has loaded a collection an  *)
(* earlier session saved, of records of up to eight categories, one of     *)
(* them not in the category table, and deletes records or clears all.      *)

MaxStats == 7         \* longest collection of the statistics explored

zzz == <<"z", "z", "z">>

\* the category of the k-th record
StatsCategories ==
    <<food, transport, food, <<"u", "t", "i", "l", "i", "t", "i", "e", "s">>, <<"h", "e", "a", "l", "t", "h">>, zzz, <<"s", "h", "o", "p", "p", "i", "n", "g">>, <<"e", "d", "u", "c", "a", "t", "i", "o", "n">>, <<"e", "n", "t", "e", "r", "t", "a", "i", "n", "m", "e", "n", "t">>>>

StatsRecord(k, amount) ==
    [id |-> Str(<<"s", Digits[k + 1]>>), title |-> Str(Tea), amount |-> Num(amount),
     category |-> Str(StatsCategories[k]), date |-> Str(ISODate(24)),
     notes |-> Str(<<>>), createdAt |-> Num(k), updatedAt |-> Undef]

StatsCollections ==
    UNION {{[k \in 1..n |-> StatsRecord(k, amounts[k])] : amounts \in [1..n -> {1, 2}]} :
             n \in 0..MaxStats}

InitStats ==
    /\ currentScreen = SCREEN.DASHBOARD
    /\ expenses \in StatsCollections
    /\ selectedExpense = Null
    /\ isLoading = FALSE
    /\ toasts = <<>>
    /\ selectedExpenses = <<>>
    /\ exportFormat = "json"
    /\ now = StartInstant
    /\ tz = 0
    /\ formData = BlankForm
    /\ storage = JSONStringify(expenses)
    /\ reading = <<>>
    /\ exported = Doc("absent", <<>>)
    /\ searchTerm = <<>>
    /\ filterCategory = all
    /\ sortBy = "date-desc"
    /\ todayString = ISODate(now)
    /\ storageFails = FALSE
    /\ crashed = FALSE

NextStats ==
    \/ \E screen \in {SCREEN.DASHBOARD, SCREEN.SETTINGS} : navigateTo(screen)
    \/ \E id \in IdsOf(expenses) : handleDeleteExpense(id, TRUE)
    \/ ClearAll(TRUE)
    \/ \E i \in DOMAIN toasts : removeToast(i)

SpecStats == InitStats /\ [][NextStats]_vars

----------------------------------------------------------------------------
(* The clock: a session that stays open while time passes, with expenses   *)
(* being added through the form.                                           *)

MaxDays == 1          \* how many days the session stays open

\* six hours pass
Tick ==
    /\ now + 6 <= StartInstant + 24 * MaxDays
    /\ now' = now + 6
    /\ UNCHANGED <<currentScreen, expenses, selectedExpense, isLoading, toasts,
                   selectedExpenses, exportFormat, formData, storage, reading,
                   exported, tz, view, env>>

NextClock ==
    \/ LoadData
    \/ \E screen \in {SCREEN.DASHBOARD, SCREEN.ADD} : navigateTo(screen)
    \/ handleInputChange("title", Tea)
    \/ handleInputChange("amount", <<"5">>)
    \/ handleAddExpense
    \/ Tick
    \/ \E i \in DOMAIN toasts : removeToast(i)

SpecClock == Init /\ [][NextClock]_vars

----------------------------------------------------------------------------
(* The storage: a session starts on every content the key can hold, on a   *)
(* store that takes writes or refuses them, and runs every operation that  *)
(* changes the collection.                                                 *)

\* a file of one object as the form would have written it
CleanFile == Doc("array", <<FileRecord(X1, Str(Tea), Num(7))>>)

\* the key holds JSON that is no array ({}, null, 5, "a"), or the store
\* cannot be read at all
StoredAnyShape ==
    StoredAtStart \cup {Doc("object", <<>>), Doc("denied", <<>>)}

InitStorage ==
    /\ currentScreen = SCREEN.DASHBOARD
    /\ expenses = <<>>
    /\ selectedExpense = Null
    /\ isLoading = TRUE
    /\ toasts = <<>>
    /\ selectedExpenses = <<>>
    /\ exportFormat = "json"
    /\ now = StartInstant
    /\ tz = 0
    /\ formData = BlankForm
    /\ storage \in StoredAnyShape
    /\ reading = <<>>
    /\ exported = Doc("absent", <<>>)
    /\ searchTerm = <<>>
    /\ filterCategory = all
    /\ sortBy = "date-desc"
    /\ todayString = ISODate(now)
    /\ storageFails \in BOOLEAN
    /\ crashed = FALSE

NextStorage ==
    \/ LoadData
    \/ \E screen \in {SCREEN.DASHBOARD, SCREEN.ADD, SCREEN.SETTINGS} :
         navigateTo(screen)
    \/ handleInputChange("title", Tea)
    \/ handleInputChange("amount", <<"5">>)
    \/ handleAddExpense
    \/ \E id \in IdsOf(expenses) : handleDeleteExpense(id, TRUE)
    \/ ClearAll(TRUE)
    \/ \E i \in DOMAIN toasts : removeToast(i)

SpecStorage == InitStorage /\ [][NextStorage]_vars

----------------------------------------------------------------------------
(* The save effect: a session on a stored collection runs every operation  *)
(* that changes the collection, on a store that takes writes or refuses    *)
(* them. The user works on the first row of the list, reads one file at a  *)
(* time and goes on when the notification of the last operation is gone.   *)

InitSave ==
    /\ InitStorage
    /\ storage = Doc("array", <<StoredRecord>>)

\* no notification is on the screen
Idle == toasts = <<>>

NextSave ==
    \/ LoadData
    \/ \E screen \in {SCREEN.DASHBOARD, SCREEN.ADD, SCREEN.SETTINGS} :
         Idle /\ navigateTo(screen)
    \/ Idle /\ currentScreen = SCREEN.ADD /\ handleInputChange("title", Tea)
    \/ Idle /\ currentScreen = SCREEN.ADD /\ handleInputChange("amount", <<"7">>)
    \/ Idle /\ handleAddExpense
    \/ Idle /\ expenses # <<>> /\ openEditModal(expenses[1])
    \/ Idle /\ handleEditExpense
    \/ \E id \in IdsOf(expenses) : Idle /\ handleDeleteExpense(id, TRUE)
    \/ Idle /\ expenses # <<>> /\ handleSelectExpense(expenses[1].id)
    \/ Idle /\ handleBulkDelete(TRUE)
    \/ Idle /\ reading = <<>> /\ importData(CleanFile)
    \/ \E i \in DOMAIN reading : Idle /\ ReaderOnload(i)
    \/ Idle /\ ClearAll(TRUE)
    \/ \E i \in DOMAIN toasts : removeToast(i)

SpecSave == InitSave /\ [][NextSave]_vars

----------------------------------------------------------------------------
(* A read in flight: the user has picked a file on the settings screen and *)
(* goes on working before reader.onload runs. No other file is picked, so  *)
(* every operation of a behaviour falls between the start of the read and  *)
(* its completion, or after it.                                            *)

InitInFlight ==
    /\ currentScreen = SCREEN.SETTINGS
    /\ expenses = <<StoredRecord>>
    /\ selectedExpense = Null
    /\ isLoading = FALSE
    /\ toasts = <<>>
    /\ selectedExpenses = <<>>
    /\ exportFormat = "json"
    /\ now = StartInstant
    /\ tz = 0
    /\ formData = BlankForm
    /\ storage = JSONStringify(expenses)
    /\ reading = <<CleanFile>>
    /\ exported = Doc("absent", <<>>)
    /\ searchTerm = <<>>
    /\ filterCategory = all
    /\ sortBy = "date-desc"
    /\ todayString = ISODate(now)
    /\ storageFails = FALSE
    /\ crashed = FALSE

NextInFlight ==
    \/ \E screen \in {SCREEN.DASHBOARD, SCREEN.ADD, SCREEN.SETTINGS} :
         Idle /\ navigateTo(screen)
    \/ Idle /\ currentScreen = SCREEN.ADD /\ handleInputChange("title", Tea)
    \/ Idle /\ currentScreen = SCREEN.ADD /\ handleInputChange("amount", <<"7">>)
    \/ Idle /\ handleAddExpense
    \/ \E expense \in SeqRange(expenses) : Idle /\ openEditModal(expense)
    \/ Idle /\ handleEditExpense
    \/ \E id \in IdsOf(expenses) : Idle /\ handleDeleteExpense(id, TRUE)
    \/ \E id \in IdsOf(expenses) : Idle /\ handleSelectExpense(id)
    \/ Idle /\ handleBulkDelete(TRUE)
    \/ \E i \in DOMAIN reading : Idle /\ ReaderOnload(i)
    \/ Idle /\ ClearAll(TRUE)
    \/ \E i \in DOMAIN toasts : removeToast(i)

SpecInFlight == InitInFlight /\ [][NextInFlight]_vars

----------------------------------------------------------------------------
(* The selection: a session that has loaded a collection an earlier        *)
(* session saved; rows are ticked, all of them or one by one, on the       *)
(* dashboard and under a category filter on the reports screen, and        *)
(* records are deleted one by one, in bulk and all at once.                *)

\* the stored collection: the first records of the views, oldest first
SelectCollection ==
    [i \in 1..MaxView |-> CHOOSE r \in ViewRecords : r.createdAt = Num(i)]

InitSelect ==
    /\ InitView
    /\ expenses = SelectCollection

NextSelect ==
    \/ \E screen \in {SCREEN.DASHBOARD, SCREEN.REPORTS, SCREEN.SETTINGS} :
         Idle /\ navigateTo(screen)
    \/ \E value \in {all, food} : setFilterCategory(value)
    \/ \E e \in SeqRange(RowsShown) : handleSelectExpense(e.id)
    \/ handleSelectAll
    \/ \E e \in SeqRange(RowsShown) : Idle /\ handleDeleteExpense(e.id, TRUE)
    \/ \E confirmed \in BOOLEAN : Idle /\ handleBulkDelete(confirmed)
    \/ Idle /\ ClearAll(TRUE)
    \/ \E i \in DOMAIN toasts : removeToast(i)

SpecSelect == InitSelect /\ [][NextSelect]_vars

----------------------------------------------------------------------------
(* The claims *)

LastToast == toasts[Len(toasts)]

Shows(template) ==
    \E i \in DOMAIN toasts : toasts[i].message.text = template

\* C1: in every reachable state no two records of the collection have the
\* same id, imports included.
C1_UniqueIds ==
    \A i, j \in DOMAIN expenses : i # j => expenses[i].id # expenses[j].id

\* C2: a confirmed delete by id removes exactly one record when a record
\* with that id is in the collection, all other records keeping their
\* relative order (the handler is only ever called with the id of a record
\* on display, so the case of an absent id does not arise).
C2_DeleteRemovesExactlyOne ==
    [][\A id \in IdsOf(expenses) :
         handleDeleteExpense(id, TRUE) =>
           /\ Len(expenses') = Len(expenses) - 1
           /\ \E k \in DOMAIN expenses :
                /\ expenses[k].id = id
                /\ expenses' = RemoveAt(expenses, k)]_vars

\* C3: in every reachable state every record of the collection has an
\* amount that is a number greater than 0, records from imports included.
C3_AmountsPositive ==
    \A i \in DOMAIN expenses :
        expenses[i].amount.t = "number" /\ expenses[i].amount.n > 0

\* the calendar day a date string names, counted from 2024-01-01 = 0
DayOf(s) == ParseDate(s).n \div 24
\* the calendar day on the user's clock
LocalDay == (now + tz) \div 24

\* C4: validate reports no date error when the form date is the current
\* local calendar day and a date error when it is a later day, at every
\* time of day and every offset between local time and UTC.
C4_DateComparedAtDayGranularity ==
    ParseDate(formData.date).t = "number" =>
        /\ DayOf(formData.date) = LocalDay
             => "date" \notin DOMAIN validateForm(formData)
        /\ DayOf(formData.date) > LocalDay
             => "date" \in DOMAIN validateForm(formData)

\* C5: validate reports a title error exactly when the trimmed title has
\* fewer than 3 characters.
C5_TitleErrorIffTrimmedShort ==
    ("title" \in DOMAIN validateForm(formData))
        <=> (Len(Trim(formData.title)) < 3)

\* C6: validate reports an amount error exactly when the amount is missing,
\* is no number, is at most 0 or exceeds 10,000,000; exactly 10,000,000 is
\* accepted.
C6_AmountErrorIff ==
    LET a == formData.amount
        v == StringToNumber(a)
    IN /\ ("amount" \in DOMAIN validateForm(formData))
            <=> (a = <<>> \/ v.t = "NaN" \/ v.n <= 0 \/ v.n > 10000000)
       /\ v = Num(10000000) => "amount" \notin DOMAIN validateForm(formData)

\* an edit went through with the amount at the limit
C6_Witness ==
    /\ Shows("Expense updated successfully!")
    /\ StringToNumber(formData.amount) = Num(10000000)
    /\ expenses[1].amount = Num(10000000)

\* C7: a submission of the add or the edit form that validate rejects
\* leaves the collection, the selected expense, the form data and the
\* screen as they are; a submission changes the collection only when
\* validate returns the empty mapping.
C7_RejectedSubmissionChangesNothing ==
    [][(handleAddExpense \/ handleEditExpense) =>
         /\ DOMAIN validateForm(formData) # {}
              => UNCHANGED <<expenses, selectedExpense, formData, currentScreen>>
         /\ expenses' # expenses => DOMAIN validateForm(formData) = {}]_vars

\* the edit form was submitted with an input validate rejects
C7_Witness ==
    /\ currentScreen = SCREEN.EDIT
    /\ Shows("Please fix the errors in the form")
    /\ DOMAIN validateForm(formData) # {}
    /\ selectedExpense = StoredRecord

\* C8: exporting a collection built by add and edit to JSON (nothing
\* selected) and importing that JSON into an empty collection gives the
\* same records in the same order, with the same field values and ids.
C8_RoundTrip ==
    [][exportData => importedCollection(exported', <<>>) = expenses]_vars

\* the exported file of an added and an edited record has been imported
\* into the cleared collection
C8_Witness ==
    /\ exported.kind = "array"
    /\ Len(toasts) > 0
    /\ LastToast.message = Counted(2, "{n} expenses imported successfully!")
    /\ Len(expenses) = 2
    /\ JSONStringify(expenses) = exported
    /\ \E i \in DOMAIN expenses : expenses[i].updatedAt # Undef
    /\ \E i \in DOMAIN expenses : expenses[i].createdAt = DateNow

\* C9: a successful import only adds: the collection it finds is a suffix
\* of the collection it leaves, and the records it accepted come first, in
\* file order.
C9_ImportOnlyPrepends ==
    [][\A i \in DOMAIN reading :
         (ReaderOnload(i) /\ reading[i].kind = "array") =>
           LET accepted == SelectSeq(reading[i].items, hasRequiredFields)
               k == Len(accepted)
           IN /\ Len(expenses') = k + Len(expenses)
              /\ SubSeq(expenses', k + 1, Len(expenses')) = expenses
              /\ \A j \in 1..k :
                   /\ expenses'[j].title = accepted[j].title
                   /\ expenses'[j].amount = ToNumber(accepted[j].amount)
                   /\ Truthy(accepted[j].id) => expenses'[j].id = accepted[j].id]_vars

\* a file with one accepted record was imported into the stored collection
C9_Witness ==
    /\ Len(toasts) > 0
    /\ LastToast.message = Counted(1, "{n} expenses imported successfully!")
    /\ Len(expenses) = 2
    /\ expenses[1].id = X1
    /\ expenses[2] = StoredRecord

\* C10: an import of a text that is no JSON, or of JSON that is no array,
\* leaves the collection as it is and shows exactly one error notification.
C10_BadFileChangesNothing ==
    [][\A i \in DOMAIN reading :
         (ReaderOnload(i) /\ reading[i].kind # "array") =>
           /\ expenses' = expenses
           /\ Len(toasts') = Len(toasts) + 1
           /\ SubSeq(toasts', 1, Len(toasts)) = toasts
           /\ LastToast'.type = "error"]_vars

\* a text that is no JSON has been imported into a collection that holds a
\* record
C10_Witness ==
    /\ expenses # <<>>
    /\ reading = <<>>
    /\ Shows("Error importing file")

\* the numbers a notification shows, in the order of its text
NumbersShown(message) ==
    IF message.text \in {"{n} expenses imported successfully!",
                         "{n} expenses deleted successfully!",
                         "{n} expenses exported successfully!"}
    THEN <<message.count>>
    ELSE <<>>

\* a parsed object contains the property
Contains(e, f) == e[f] # Undef

ContainsRequired(e) ==
    Contains(e, "title") /\ Contains(e, "amount") /\ Contains(e, "category")
    /\ Contains(e, "date")

\* the property is there and is not one of the values JavaScript takes for
\* false (the empty string, 0, NaN, null)
Present(e, f) ==
    /\ e[f] \notin {Undef, Null, NaN}
    /\ e[f].t = "string" => e[f].s # <<>>
    /\ e[f].t = "number" => e[f].n # 0

PresentRequired(e) ==
    Present(e, "title") /\ Present(e, "amount") /\ Present(e, "category")
    /\ Present(e, "date")

\* which records an import keeps, with which id and createdAt, and that
\* the rejected ones add nothing; Required tells the records to keep
ImportKeeps(items, before, after, Required(_)) ==
    LET kept == SelectSeq(items, Required)
        k == Len(kept)
    IN /\ Len(after) = k + Len(before)
       /\ SubSeq(after, k + 1, Len(after)) = before
       /\ \A j \in 1..k :
            /\ after[j].title = kept[j].title
            /\ Present(after[j], "id")
            /\ Present(kept[j], "id") => after[j].id = kept[j].id
            /\ ~Present(kept[j], "id") =>
                 /\ after[j].id \notin IdsOf(before)
                 /\ \A h \in 1..k : h # j => after[h].id # after[j].id
            /\ after[j].createdAt =
                 IF Present(kept[j], "createdAt") THEN kept[j].createdAt
                 ELSE DateNow

C12_EditChangesOneRecord ==
    [][(/\ handleEditExpense
        /\ selectedExpense # Null
        /\ DOMAIN validateForm(formData) = {}) =>
         \E k \in DOMAIN expenses :
            /\ expenses[k].id = selectedExpense.id
            /\ expenses' =
                 [expenses EXCEPT ![k] =
                    [expenses[k] EXCEPT
                       !.title = Str(formData.title),
                       !.amount = StringToNumber(formData.amount),
                       !.category = Str(formData.category),
                       !.date = Str(formData.date),
                       !.notes = Str(formData.notes),
                       !.updatedAt = DateNow]]]_vars

\* the orderings of a sequence: its elements in any order
Orderings(q) ==
    {[i \in DOMAIN q |-> q[p[i]]] :
       p \in {f \in [DOMAIN q -> DOMAIN q] :
                \A i, j \in DOMAIN q : i # j => f[i] # f[j]}}

Prefix(q, n) == SubSeq(q, 1, IF Len(q) < n THEN Len(q) ELSE n)

\* no record comes before a record of a later date
DateDescending(q) ==
    \A i, j \in DOMAIN q : i < j => DayOf(q[i].date.s) >= DayOf(q[j].date.s)

\* C13: in every reachable state recentExpenses is the first 5 records of
\* the collection ordered by date descending, whatever the sort key chosen
\* on the reports screen (the collection being taken as the records the
\* search term and the category filter let through, which is all of them
\* when neither is set).
C13_RecentIsDateDescending ==
    \E r \in Orderings(SelectSeq(expenses, matchesFilter)) :
        DateDescending(r) /\ recentExpenses = Prefix(r, 5)

\* the same letter, in either case
SameLetter(c, d) ==
    c = d \/ \E k \in 1..26 : {c, d} = {Lowers[k], Uppers[k]}

CaseInsensitiveSubstring(part, s) ==
    \E off \in 0..(Len(s) - Len(part)) :
        \A i \in 1..Len(part) : SameLetter(s[off + i], part[i])

\* C14: a record is in the derived view exactly when (the category filter
\* is "all" or is the record's category) and (the search term is empty or
\* is a case-insensitive substring of the record's title or of its notes);
\* a record without notes is judged by its title.
C14_FilterPredicate ==
    \A r \in SeqRange(expenses) :
        (\E i \in DOMAIN filteredExpenses : filteredExpenses[i] = r)
        <=> /\ filterCategory = all \/ r.category.s = filterCategory
            /\ \/ searchTerm = <<>>
               \/ CaseInsensitiveSubstring(searchTerm, r.title.s)
               \/ /\ r.notes.t = "string"
                  /\ CaseInsensitiveSubstring(searchTerm, r.notes.s)

\* a search in capitals under a category filter finds a record by its
\* notes and leaves out the records of that category that have no notes
C14_Witness ==
    /\ searchTerm = <<"T", "E">>
    /\ filterCategory = transport
    /\ Len(filteredExpenses) = 1
    /\ CaseInsensitiveSubstring(searchTerm, filteredExpenses[1].notes.s)
    /\ ~CaseInsensitiveSubstring(searchTerm, filteredExpenses[1].title.s)
    /\ \E r \in SeqRange(expenses) : r.notes = Null /\ r.category.s = transport
    /\ \E r \in SeqRange(expenses) : r.notes = Undef

\* C15: with the search term empty and the category filter "all", the view
\* under every sort key holds every record of the collection exactly once
\* and nothing else.
C15_NeutralFilterPermutes ==
    (searchTerm = <<>> /\ filterCategory = all) =>
        /\ filteredExpenses \in Orderings(expenses)
        /\ \A key \in SortKeys : viewSortedBy(key) \in Orderings(expenses)

\* three records, two of them of the same amount, listed by amount in an
\* order that is not the collection's
C15_Witness ==
    /\ searchTerm = <<>> /\ filterCategory = all
    /\ sortBy = "amount-asc"
    /\ Len(expenses) = 3
    /\ filteredExpenses # expenses
    /\ \E i, j \in DOMAIN expenses : i # j /\ expenses[i].amount = expenses[j].amount

Reverse(q) == [i \in DOMAIN q |-> q[Len(q) + 1 - i]]

\* C16: when no two records of the collection have the same date, the view
\* sorted by date-asc is the reverse of the view sorted by date-desc, the
\* search term and the category filter being the same.
C16_DateAscReversesDateDesc ==
    (\A i, j \in DOMAIN expenses :
        i # j => DayOf(expenses[i].date.s) # DayOf(expenses[j].date.s))
    => viewSortedBy("date-asc") = Reverse(viewSortedBy("date-desc"))

\* three records of three dates, listed oldest first in an order that is
\* neither the collection's nor its reverse
C16_Witness ==
    /\ sortBy = "date-asc"
    /\ Len(filteredExpenses) = 3
    /\ \A i, j \in DOMAIN expenses :
         i # j => DayOf(expenses[i].date.s) # DayOf(expenses[j].date.s)
    /\ filteredExpenses # expenses
    /\ filteredExpenses # Reverse(expenses)
    /\ DayOf(filteredExpenses[1].date.s) < DayOf(filteredExpenses[3].date.s)

RECURSIVE SumOfSums(_)
SumOfSums(entries) ==
    IF entries = <<>> THEN Num(0)
    ELSE Plus(entries[1].amount, SumOfSums(Tail(entries)))

\* C17: in every state with a non-empty collection that add, edit, delete,
\* import and clear can reach, the total (the sum of all amounts) is the
\* sum of the values of categoryTotals.
C17_TotalIsSumOfCategoryTotals ==
    expenses # <<>> => totalExpenses = SumOfSums(categoryTotals)

KnownCategories == {CATEGORIES[i].id : i \in DOMAIN CATEGORIES}

\* C18: topCategories has at most 5 entries, in non-increasing order of
\* their sums, each of them a (category, sum) pair of categoryTotals, and
\* no category left out has a greater sum than one returned; a category
\* that is not in the category table is returned all the same, shown under
\* its own id with the fallback icon and colour.
C18_TopCategories ==
    LET top == topCategories
        Pair(e) == <<e.category, e.amount>>
        returned == {Pair(top[i]) : i \in DOMAIN top}
        entries == {Pair(categoryTotals[i]) : i \in DOMAIN categoryTotals}
    IN /\ Len(top) <= 5
       /\ \A i, j \in DOMAIN top : i < j => top[i].amount.n >= top[j].amount.n
       /\ \A i, j \in DOMAIN top : i # j => top[i].category # top[j].category
       /\ returned \subseteq entries
       /\ \A e \in entries \ returned : \A r \in returned : e[2].n <= r[2].n
       /\ \A i \in DOMAIN top :
            top[i].category.s \notin KnownCategories =>
              /\ top[i].name = top[i].category.s
              /\ top[i].icon = "fa-tag"
              /\ top[i].color = "#6b7280"

\* six categories, one of them not in the table and among the five
\* returned, in an order that is not the order of first appearance
C18_Witness ==
    /\ Len(categoryTotals) = 6
    /\ Len(topCategories) = 5
    /\ \E i \in DOMAIN topCategories : topCategories[i].category = Str(zzz)
    /\ topCategories[1].category # categoryTotals[1].category
    /\ topCategories[1].amount.n > topCategories[5].amount.n

\* C19: the average is 0 when the collection is empty and the total
\* divided by the number of records otherwise; nothing is divided by zero,
\* after Clear All and after the delete of the last record included.
C19_AverageGuarded ==
    LET avg == averageExpense
        den == IF avg.t = "fraction" THEN DecimalValue(avg.s) ELSE 1
    IN /\ avg.t \in {"number", "fraction"}
       /\ expenses = <<>> => avg = Num(0)
       /\ expenses # <<>> => avg.n * Len(expenses) = totalExpenses.n * den

\* the last record has been deleted
C19_Witness ==
    /\ expenses = <<>>
    /\ Shows("Expense deleted successfully!")
    /\ averageExpense = Num(0)

\* C20: in every reachable state, also after the calendar day has changed
\* while the session stayed open, the today total on display is the sum of
\* the amounts of exactly the records whose date is the current day (the
\* clock explored is in UTC, where the local day is the UTC day).
C20_TodayTotalFollowsTheDay ==
    LET OfToday(expense) == expense.date = Str(ISODate(now))
    IN todayExpenses = sumOfAmounts(SelectSeq(expenses, OfToday))

\* C21: the initial load is resolved once. The step that clears the loading
\* flag sets the collection from the storage; the flag is never set again;
\* and every later change of the collection is the effect of an operation,
\* which announces it by a notification, never a silent replacement by what
\* the storage holds.
C21_LoadResolvedOnce ==
    [][/\ (isLoading /\ ~isLoading') =>
             expenses' = loadExpensesFromStorage.items
       /\ ~isLoading => ~isLoading'
       /\ (~isLoading /\ expenses' # expenses) => toasts' # toasts]_vars

\* the load is over, the store refused the writes and holds another
\* collection than the session does
C21_Witness ==
    /\ ~isLoading
    /\ storageFails
    /\ expenses # <<>>
    /\ loadExpensesFromStorage.items # expenses

C24_NothingWrittenWhileLoading ==
    [][isLoading =>
         IF isLoading'
         THEN UNCHANGED <<expenses, storage>>
         ELSE /\ expenses' = loadExpensesFromStorage.items
              /\ storage' \in {storage, JSONStringify(expenses')}]_vars

\* the user has left the dashboard for the form while a stored collection
\* is still being loaded
C24_Witness ==
    /\ isLoading
    /\ ~crashed
    /\ currentScreen = SCREEN.ADD
    /\ storage.kind = "array"
    /\ storage.items # <<>>

\* C25: once the load is over, every step that changes the collection (the
\* load itself, add, edit, delete, bulk delete, import, clear) leaves the
\* store holding the collection as it is after the step, unless the store
\* refuses the write.
C25_SavedAfterEveryChange ==
    [][(~isLoading' /\ expenses' # expenses /\ ~storageFails) =>
          storage' = JSONStringify(expenses')]_vars

\* a collection of an imported and a stored record has been written to the
\* store
C25_Witness ==
    /\ ~storageFails
    /\ Len(expenses) = 2
    /\ expenses[1].id = X1
    /\ storage = JSONStringify(expenses)

\* C23: when a read completes, whatever was added, edited, deleted or
\* cleared since the file was picked, the objects of the file are put in
\* front of the collection as it is at that moment: every record of it is
\* kept, in its order and with its values, and the selection, the record
\* being edited and the form are left alone.
C23_ImportMergesIntoCurrent ==
    [][Len(reading') < Len(reading) =>
         /\ \E i \in DOMAIN reading :
              expenses' = validExpenses(reading[i].items) \o expenses
         /\ UNCHANGED <<selectedExpenses, selectedExpense, formData,
                        currentScreen>>]_vars

\* the stored record was deleted and another added while the file was being
\* read; the read has completed and the added record is there, behind the
\* imported one
C23_Witness ==
    /\ reading = <<>>
    /\ Len(expenses) = 2
    /\ expenses[1].id = X1
    /\ expenses[2].id # X1
    /\ expenses[2].amount = Num(7)

\* the collection holds a record with the id of selectedExpense and with the
\* same values in every field
SnapshotIsCurrent ==
    /\ selectedExpense # Null
    /\ \E i \in DOMAIN expenses :
         /\ expenses[i].id = selectedExpense.id
         /\ \A f \in FIELDS : expenses[i][f] = selectedExpense[f]

\* C27: whenever the edit screen is the current screen, selectedExpense is
\* an expense and the collection holds a record with its id and the same
\* values in every field; so the edit that is submitted from it changes only
\* records that held the values of that snapshot.
C27_EditActsOnItsRecord ==
    [][/\ currentScreen' = SCREEN.EDIT => SnapshotIsCurrent'
       /\ (currentScreen = SCREEN.EDIT /\ currentScreen' # SCREEN.EDIT) =>
            \A i \in DOMAIN expenses :
               (i \in DOMAIN expenses' /\ expenses'[i] # expenses[i]) =>
                  expenses[i] = selectedExpense]_vars

\* C26: every id in selectedExpenses is the id of a record of the
\* collection.
C26_SelectionWithinCollection ==
    SeqRange(selectedExpenses) \subseteq IdsOf(expenses)

\* a record has just been deleted from a list and all that are left are
\* ticked
C26_Witness ==
    /\ toasts # <<>>
    /\ LastToast.message = Text("Expense deleted successfully!")
    /\ expenses # <<>>
    /\ Len(selectedExpenses) = Len(expenses)

\* the step shows the notification of a bulk delete that was carried out
BulkDeleted ==
    /\ Len(toasts') = Len(toasts) + 1
    /\ toasts'[Len(toasts')].message.text = "{n} expenses deleted successfully!"

\* the step shows the notification of a bulk delete without a selection
NothingSelected ==
    /\ Len(toasts') = Len(toasts) + 1
    /\ toasts'[Len(toasts')].message.text = "No expenses selected"

\* the positions of the records that are not selected
Unselected ==
    {i \in DOMAIN expenses : expenses[i].id \notin SeqRange(selectedExpenses)}

\* C28: a confirmed bulk delete leaves exactly the records whose ids are not
\* selected, each as it was and in the order they had, and empties the
\* selection; without a selection it changes neither.
C28_BulkDeleteRemovesSelected ==
    [][/\ BulkDeleted =>
            /\ Len(expenses') = Cardinality(Unselected)
            /\ \E f \in [DOMAIN expenses' -> Unselected] :
                 /\ \A i, j \in DOMAIN expenses' : i < j => f[i] < f[j]
                 /\ \A i \in DOMAIN expenses' : expenses'[i] = expenses[f[i]]
            /\ selectedExpenses' = <<>>
       /\ NothingSelected => UNCHANGED <<expenses, selectedExpenses>>]_vars

\* two records have been deleted in bulk and the others are left
C28_Witness ==
    /\ toasts # <<>>
    /\ LastToast.message = Counted(2, "{n} expenses deleted successfully!")
    /\ Len(expenses) = MaxView - 2
    /\ selectedExpenses = <<>>

\* C29: select-all empties the selection when the ids selected are exactly
\* the ids of the filtered view, and in every other case selects exactly the
\* ids of the filtered view.
C29_SelectAllToggles ==
    [][handleSelectAll =>
         IF SeqRange(selectedExpenses) = IdsOf(filteredExpenses)
         THEN selectedExpenses' = <<>>
         ELSE SeqRange(selectedExpenses') = IdsOf(filteredExpenses)]_vars

\* C30: whenever the reports screen shows the category breakdown, that is
\* whenever the collection is not empty, the total the percentages are
\* divided by is not 0.
C30_BreakdownTotalNonZero ==
    (ReportsShown /\ expenses # <<>>) => totalExpenses # Num(0)

====
